---- MODULE Spec2Model ----
(***************************************************************************)
(* KanoWINS: a Slack slash command (KanowinsCommand), the dialog           *)
(* submission handler (KanowinsInteractiveComponent) and the DynamoDB      *)
(* table of WINS they share.                                               *)
(*                                                                         *)
(* Time is counted in ticks of 1/TicksPerSecond second since the Unix      *)
(* epoch, so that time.Time keeps a sub-second part that Unix() drops.     *)
(* Texts that the code transforms (the command argument) are sequences of  *)
(* one-character strings; texts it only copies are strings.                *)
(***************************************************************************)
EXTENDS Integers, Sequences, FiniteSets, TLC

VARIABLES
    store,      \* the DynamoDB table: the items written, in write order
    now,        \* the wall clock, in ticks
    pc,         \* position of the slash command invocation in flight
    def,        \* the Handler that serves it: definition 1 or 2 of
                \* KanowinsCommand/main.go, or 0 for KanowinsHelp
    request,    \* the decoded Request of that invocation
    calls,      \* outbound calls of that invocation and their results, in order
    wins,       \* getSummary's wins, between GetWins and its return
    report,     \* the summary POSTed to response_url, or NoReport
    dialog,     \* the Payload POSTed to dialog.open, or NoDialog
    resp,       \* the Response of that invocation, or NoResponse
    icResp      \* the last Response KanowinsInteractiveComponent returned

vars == <<store, now, pc, def, request, calls, wins, report, dialog, resp, icResp>>

(***************************************************************************)
(* Bounds of the model.                                                    *)
(***************************************************************************)
MaxWins == 2
TicksPerSecond == 2

Second == TicksPerSecond
Hour == 3600 * Second
Day == 24 * Hour

\* The instants the clock visits. It starts at Start, the last tick of a
\* second; ages of 13h, of exactly 12h and of less are seen from 13h past
\* Start, and the last instant lies past the expiry of everything written
\* before it.
Start == Second - 1
Instants == {Start, Start + Hour, Start + 13 * Hour, 8 * Day}

(***************************************************************************)
(* Configuration (environment) and inputs.                                 *)
(***************************************************************************)
SLACK_VERIFICATION_TOKEN == "verification-token"
SLACK_ACCESS_TOKEN == "access-token"
apiEndpoint == "https://slack.com/api/dialog.open"


summary == <<"s", "u", "m", "m", "a", "r", "y">>
SUMMARY == <<"S", "U", "M", "M", "A", "R", "Y">>
PaddedSummary == <<" ", "s", "u", "m", "m", "a", "r", "y", " ">>
Alice == <<"A", "l", "i", "c", "e">>

ResponseURL == "https://hooks.slack.com/commands/1"
BadURL == "%zz://hooks.slack.com"

\* The slash command requests tried: form fields token, text, trigger_id and
\* response_url (the other fields are only logged)
CommandRequest(token, text, url) ==
    [Token |-> token, Text |-> text, TriggerID |-> "trigger-1", ResponseURL |-> url]

\* a form body without the trigger_id field
NoTriggerID ==
    [Token |-> SLACK_VERIFICATION_TOKEN, Text |-> Alice, ResponseURL |-> ResponseURL]

\* query[field][0] of every field Handler reads: an absent field has no [0]
FieldsPresent(r) == {"Token", "Text", "TriggerID", "ResponseURL"} \subseteq DOMAIN r

Requests ==
    { CommandRequest("wrong-token", summary, ResponseURL),
      CommandRequest("wrong-token", Alice, ResponseURL),
      CommandRequest(SLACK_VERIFICATION_TOKEN, summary, ResponseURL),
      CommandRequest(SLACK_VERIFICATION_TOKEN, SUMMARY, BadURL),
      CommandRequest(SLACK_VERIFICATION_TOKEN, PaddedSummary, ResponseURL),
      CommandRequest(SLACK_VERIFICATION_TOKEN, Alice, ResponseURL),
      NoTriggerID }

\* The requests KanowinsHelp is tried with; its Request has no trigger_id
HelpRequest(token) == [Token |-> token, Text |-> <<>>, ResponseURL |-> ResponseURL]
HelpRequests == {HelpRequest(SLACK_ACCESS_TOKEN), HelpRequest(SLACK_VERIFICATION_TOKEN)}

UpperChars == <<"A", "B", "C", "D", "E", "F", "G", "H", "I", "J", "K", "L", "M",
                "N", "O", "P", "Q", "R", "S", "T", "U", "V", "W", "X", "Y", "Z">>
LowerChars == <<"a", "b", "c", "d", "e", "f", "g", "h", "i", "j", "k", "l", "m",
                "n", "o", "p", "q", "r", "s", "t", "u", "v", "w", "x", "y", "z">>

\* strings.ToLower, character by character
ToLowerChar(c) ==
    IF \E i \in DOMAIN UpperChars : UpperChars[i] = c
    THEN LowerChars[CHOOSE i \in DOMAIN UpperChars : UpperChars[i] = c]
    ELSE c

ToLower(s) == [i \in DOMAIN s |-> ToLowerChar(s[i])]

(***************************************************************************)
(* KanowinsInteractiveComponent: the Win, its item in the table, PutItem.   *)
(***************************************************************************)
\* The JSON documents of the payload field; Malformed is not JSON at all,
\* and NoPayload is a form body without the payload field.
Malformed == [json |-> FALSE]
NoPayload == [absent |-> TRUE]
Payloads ==
    { Malformed,
      [json |-> TRUE,
       submission |-> [who |-> "Bob", title |-> "Shipped feature", description |-> ""],
       user |-> [id |-> "U1", name |-> "alice"]],
      [json |-> TRUE,
       submission |-> [who |-> "Bob", title |-> "Shipped feature",
                       description |-> "Did it"],
       user |-> [id |-> "U1", name |-> "alice"]] }

\* Request{} and json.Unmarshal into it: a document that is not JSON leaves
\* the zero-valued Request
ZeroRequest ==
    [Submission |-> [Who |-> "", Title |-> "", Description |-> ""],
     User |-> [ID |-> "", Name |-> ""]]

Unmarshal(payload) ==
    IF payload.json
    THEN [Submission |-> [Who |-> payload.submission.who,
                          Title |-> payload.submission.title,
                          Description |-> payload.submission.description],
          User |-> [ID |-> payload.user.id, Name |-> payload.user.name]]
    ELSE ZeroRequest

\* time.Time.Unix(): whole seconds since the epoch, the sub-second part dropped
Unix(t) == t \div Second

\* time.Time.AddDate(0, 0, days) in UTC, the zone of the Lambda runtime
AddDate(t, days) == t + days * Day

\* variant: the submitted description is stored as it came
DescriptionAsSubmitted(r) == r.Submission.Description

Description(r) ==
    IF r.Submission.Description = "" THEN "Big WIN!" ELSE r.Submission.Description

\* the Win literal of PutItem; TTL is set after GetDB succeeded
\* variant: updated_at is taken from a second reading of the clock
NewWinUpdatedLater(r, t) ==
    [UserID |-> r.User.ID, UserName |-> r.User.Name,
     Who |-> r.Submission.Who, Title |-> r.Submission.Title,
     Description |-> Description(r),
     CreatedAt |-> t, UpdatedAt |-> t + 1, TTL |-> 0]

NewWin(r, t) ==
    [UserID |-> r.User.ID, UserName |-> r.User.Name,
     Who |-> r.Submission.Who, Title |-> r.Submission.Title,
     Description |-> Description(r),
     CreatedAt |-> t, UpdatedAt |-> t, TTL |-> 0]

\* variant: the expiry is rounded up to the next whole second
TTLRoundedUp(win) == (AddDate(win.UpdatedAt, 7) + Second - 1) \div Second

TTL(win) == Unix(AddDate(win.UpdatedAt, 7))

\* dynamodbattribute encoding: attribute names from the json tags, an empty
\* string as NULL, a time.Time as its RFC3339Nano text, an int64 as a number
EncodeString(s) == IF s = "" THEN [NULL |-> TRUE] ELSE [S |-> s]
DecodeString(av) == IF "S" \in DOMAIN av THEN av.S ELSE ""

MarshalMap(win) ==
    [user_id |-> EncodeString(win.UserID),
     user_name |-> EncodeString(win.UserName),
     who |-> EncodeString(win.Who),
     title |-> EncodeString(win.Title),
     description |-> EncodeString(win.Description),
     created_at |-> [S |-> win.CreatedAt],
     updated_at |-> [S |-> win.UpdatedAt],
     ttl |-> [N |-> win.TTL]]

UnmarshalMap(item) ==
    [UserID |-> DecodeString(item.user_id),
     UserName |-> DecodeString(item.user_name),
     Who |-> DecodeString(item.who),
     Title |-> DecodeString(item.title),
     Description |-> DecodeString(item.description),
     CreatedAt |-> item.created_at.S,
     UpdatedAt |-> item.updated_at.S,
     TTL |-> item.ttl.N]

UnmarshalListOfMaps(items) == [i \in DOMAIN items |-> UnmarshalMap(items[i])]

\* The table: write(record) adds one record under a key of its own and
\* overwrites none; a record past its expiry instant may be removed.
\* variant: the table is keyed by user_id, who and title, and a write replaces
\* the record of the same key
StoreWriteKeyed(table, item) ==
    IF \E i \in DOMAIN table : /\ table[i].user_id = item.user_id
                                /\ table[i].who = item.who
                                /\ table[i].title = item.title
    THEN [i \in DOMAIN table |->
            IF /\ table[i].user_id = item.user_id
               /\ table[i].who = item.who
               /\ table[i].title = item.title
            THEN item ELSE table[i]]
    ELSE Append(table, item)

StoreWrite(table, item) == Append(table, item)
StoreRemove(table, i) == [j \in 1..(Len(table) - 1) |-> IF j < i THEN table[j] ELSE table[j + 1]]
Expired(item, t) == item.ttl.N < Unix(t)

PutItemErrors == {"nil", "GetDB", "PutItem"}

\* Request.PutItem: the item it writes, and the table after it
PutItemInput(r, t) == MarshalMap([NewWin(r, t) EXCEPT !.TTL = TTL(NewWin(r, t))])

PutItem(r, err) ==
    /\ err \in PutItemErrors
    /\ IF err = "nil"
       THEN /\ Len(store) < MaxWins
            /\ store' = StoreWrite(store, PutItemInput(r, now))
       ELSE store' = store

\* variant: a write that failed is answered with a 500
InteractiveComponentResponse500(err) ==
    [StatusCode |-> IF err = "nil" THEN 200 ELSE 500, Body |-> <<>>]

\* the Response Handler builds after PutItem, whatever PutItem returned
InteractiveComponentResponse(err) == [StatusCode |-> 200, Body |-> <<>>]

\* Handler of KanowinsInteractiveComponent; query["payload"][0] of a body
\* without the field panics: nothing is written and no Response returned
InteractiveComponentHandler(payload, err) ==
    /\ IF payload = NoPayload
       THEN /\ err = "nil"
            /\ UNCHANGED <<store, icResp>>
       ELSE /\ PutItem(Unmarshal(payload), err)
            /\ icResp' = InteractiveComponentResponse(err)
    /\ UNCHANGED <<now, pc, def, request, calls, wins, report, dialog, resp>>

(***************************************************************************)
(* KanowinsCommand: token check, routing, getSummary, dialog.open.         *)
(***************************************************************************)
NoResponse == [StatusCode |-> 0, Body |-> <<>>]
NoReport == [posted |-> FALSE]
NoDialog == [posted |-> FALSE]
NoRequest == CommandRequest("", <<>>, "")

Response(status, body) == [StatusCode |-> status, Body |-> body]

\* What an outbound call comes to: a reply that decodes, no reply (transport
\* or service error), or a reply that does not decode
CallResults == {"ok", "error", "undecodable"}
Call(op, result) == [op |-> op, result |-> result]

\* request.Token != os.Getenv("SLACK_VERIFICATION_TOKEN")
TokenValid(r) == r.Token = SLACK_VERIFICATION_TOKEN

\* strings.TrimSpace, for the space character
RECURSIVE TrimLeft(_)
TrimLeft(s) == IF s # <<>> /\ Head(s) = " " THEN TrimLeft(Tail(s)) ELSE s
RECURSIVE TrimRight(_)
TrimRight(s) ==
    IF s # <<>> /\ s[Len(s)] = " " THEN TrimRight(SubSeq(s, 1, Len(s) - 1)) ELSE s
TrimSpace(s) == TrimRight(TrimLeft(s))

\* variant: the command argument is trimmed before it is compared
IsSummaryTrimmed(text) == ToLower(TrimSpace(text)) = summary

\* strings.ToLower(request.Text) == "summary"
IsSummary(text) == ToLower(text) = summary

\* The Payload marshalled for dialog.open
\* variant: who is pre-filled with the trimmed, lower-cased text
DialogPayloadLowered(r) ==
    [posted |-> TRUE,
     trigger_id |-> r.TriggerID,
     elements |-> << [name |-> "who", type |-> "text",
                      value |-> ToLower(TrimSpace(r.Text)), optional |-> FALSE],
                     [name |-> "title", type |-> "text", value |-> <<>>,
                      optional |-> FALSE],
                     [name |-> "description", type |-> "textarea", value |-> <<>>,
                      optional |-> TRUE] >>]

DialogPayload(r) ==
    [posted |-> TRUE,
     trigger_id |-> r.TriggerID,
     elements |-> << [name |-> "who", type |-> "text", value |-> r.Text,
                      optional |-> FALSE],
                     [name |-> "title", type |-> "text", value |-> <<>>,
                      optional |-> FALSE],
                     [name |-> "description", type |-> "textarea", value |-> <<>>,
                      optional |-> TRUE] >>]

\* variant: a Win of exactly 12 hours is kept too
InSummaryAtLeast(win, t) == t - win.CreatedAt >= 12 * Hour

\* time.Now().Sub(win.CreatedAt).Hours() > float64(12.0)
InSummary(win, t) == t - win.CreatedAt > 12 * Hour

\* win.CreatedAt.Format(time.RFC3339)[:19]: date and time to the whole second
FormatCreatedAt(t) == Unix(t)

WinSummary(win) ==
    [who |-> win.Who, title |-> win.Title, description |-> win.Description,
     created_at |-> FormatCreatedAt(win.CreatedAt)]

RECURSIVE winsSummary(_, _)
winsSummary(ws, t) ==
    IF ws = <<>> THEN <<>>
    ELSE IF InSummary(Head(ws), t)
         THEN <<WinSummary(Head(ws))>> \o winsSummary(Tail(ws), t)
         ELSE winsSummary(Tail(ws), t)

\* variant: the count line counts the scanned Wins
SummaryTextCountsScanned(ws, t) ==
    [posted |-> TRUE, count |-> Len(ws), rows |-> winsSummary(ws, t)]

\* the text POSTed to response_url: the count line and the serialized rows
SummaryText(ws, t) ==
    [posted |-> TRUE, count |-> Len(winsSummary(ws, t)), rows |-> winsSummary(ws, t)]

\* http.NewRequest parses its URL
ParsesAsURL(u) == u # BadURL

\* start of an invocation: a fresh Request and nothing sent yet
Invoke(d, r) ==
    /\ pc \in {"idle", "done", "panic"}
    /\ def' = d
    /\ request' = r
    /\ calls' = <<>>
    /\ wins' = <<>>
    /\ report' = NoReport
    /\ dialog' = NoDialog

\* query[field][0] of an absent field: index out of range, the invocation
\* ends without a Response
Panic ==
    /\ resp' = NoResponse
    /\ pc' = "panic"

\* Handler, first definition: decode, token check and routing
Handler(r) ==
    /\ Invoke(1, r)
    /\ IF ~FieldsPresent(r)
       THEN Panic
       ELSE IF ~TokenValid(r)
       THEN /\ resp' = Response(400, <<"KanowinsCommand submitting - error: ",
                                       "invalid verification token">>)
            /\ pc' = "done"
       ELSE /\ resp' = NoResponse
            /\ pc' = IF IsSummary(r.Text) THEN "GetWins" ELSE "dialog"
    /\ UNCHANGED <<store, now, icResp>>

\* Handler, second definition in the same file: decode, then the dialog
Handler2(r) ==
    /\ Invoke(2, r)
    /\ IF ~FieldsPresent(r)
       THEN Panic
       ELSE /\ resp' = NoResponse
            /\ pc' = "dialog"
    /\ UNCHANGED <<store, now, icResp>>

\* Handler of KanowinsHelp: the token is compared with SLACK_ACCESS_TOKEN
HelpHandler(r) ==
    /\ Invoke(0, r)
    /\ resp' = IF r.Token # SLACK_ACCESS_TOKEN
               THEN Response(400, <<"<h2>Invalid token</h2>">>)
               ELSE Response(200,
                      <<"<h2>Invoke /wins Command to enter a new WIN for your team!</h2>">>)
    /\ pc' = "done"
    /\ UNCHANGED <<store, now, icResp>>

\* variant: the failure of getSummary is logged and the dialog still opened
SummaryFailedContinue(err) ==
    /\ resp' = NoResponse
    /\ pc' = "dialog"

\* variant: the failure of getSummary is answered with a 200
SummaryFailedOK(err) ==
    /\ resp' = Response(200, <<"KanowinsCommand summary - error: ", err>>)
    /\ pc' = "done"

\* what Handler returns when getSummary returned err
SummaryFailed(err) ==
    /\ resp' = Response(400, <<"KanowinsCommand summary - error: ", err>>)
    /\ pc' = "done"

\* variant: the scan takes the Wins it read out of the table
GetWinsConsuming(outcome) ==
    /\ pc = "GetWins"
    /\ outcome \in {"GetDB failed", "ok", "error", "undecodable"}
    /\ calls' = IF outcome = "GetDB failed" THEN calls
                ELSE Append(calls, [op |-> "Scan", result |-> outcome,
                                    count |-> IF outcome = "error" THEN 0
                                              ELSE Len(store)])
    /\ IF outcome = "ok"
       THEN /\ wins' = UnmarshalListOfMaps(store)
            /\ store' = <<>>
            /\ pc' = "getSummary"
            /\ UNCHANGED resp
       ELSE /\ SummaryFailed(<<"GetWins", outcome>>)
            /\ UNCHANGED <<wins, store>>
    /\ UNCHANGED <<now, def, request, report, dialog, icResp>>

GetWinsOutcomes == {"GetDB failed"} \cup CallResults

\* GetWins, called first by getSummary: GetDB, then one Scan of the table
GetWins(outcome) ==
    /\ pc = "GetWins"
    /\ outcome \in GetWinsOutcomes
    /\ calls' = IF outcome = "GetDB failed" THEN calls
                ELSE Append(calls, [op |-> "Scan", result |-> outcome,
                                    count |-> IF outcome = "error" THEN 0
                                              ELSE Len(store)])
    /\ IF outcome = "ok"
       THEN /\ wins' = UnmarshalListOfMaps(store)
            /\ pc' = "getSummary"
            /\ UNCHANGED resp
       ELSE /\ SummaryFailed(<<"GetWins", outcome>>)
            /\ UNCHANGED wins
    /\ UNCHANGED <<store, now, def, request, report, dialog, icResp>>

\* variant: the Wins are read again from the table when they are filtered
getSummaryRereads(outcome) ==
    /\ pc = "getSummary"
    /\ outcome \in CallResults
    /\ wins' = <<>>
    /\ IF ~ParsesAsURL(request.ResponseURL)
       THEN /\ SummaryFailed(<<"http.NewRequest", "error">>)
            /\ UNCHANGED <<calls, report>>
       ELSE /\ calls' = Append(calls, Call("response_url", outcome))
            /\ report' = IF outcome = "error" THEN NoReport
                         ELSE SummaryText(UnmarshalListOfMaps(store), now)
            /\ IF outcome = "ok"
               THEN /\ pc' = "dialog"
                    /\ UNCHANGED resp
               ELSE SummaryFailed(<<"response_url", outcome>>)
    /\ UNCHANGED <<store, now, def, request, dialog, icResp>>

\* getSummary after GetWins: filter, format, POST to response_url
getSummary(outcome) ==
    /\ pc = "getSummary"
    /\ outcome \in CallResults
    /\ wins' = <<>>
    /\ IF ~ParsesAsURL(request.ResponseURL)
       THEN /\ SummaryFailed(<<"http.NewRequest", "error">>)
            /\ UNCHANGED <<calls, report>>
       ELSE /\ calls' = Append(calls, Call("response_url", outcome))
            /\ report' = IF outcome = "error" THEN NoReport ELSE SummaryText(wins, now)
            /\ IF outcome = "ok"
               THEN /\ pc' = "dialog"
                    /\ UNCHANGED resp
               ELSE SummaryFailed(<<"response_url", outcome>>)
    /\ UNCHANGED <<store, now, def, request, dialog, icResp>>

\* variant: a POST to dialog.open that got no reply is sent once more
DialogOpenRetry(outcome) ==
    /\ pc = "dialog"
    /\ outcome \in CallResults
    /\ calls' = IF outcome = "error"
                THEN calls \o <<Call("dialog.open", outcome), Call("dialog.open", outcome)>>
                ELSE Append(calls, Call("dialog.open", outcome))
    /\ dialog' = DialogPayload(request)
    /\ resp' = Response(200, <<>>)
    /\ pc' = "done"
    /\ UNCHANGED <<store, now, def, request, wins, report, icResp>>

\* variant: a dialog.open call that failed is answered with a 500
DialogOpenFails(outcome) ==
    /\ pc = "dialog"
    /\ outcome \in CallResults
    /\ calls' = Append(calls, Call("dialog.open", outcome))
    /\ dialog' = DialogPayload(request)
    /\ resp' = Response(IF outcome = "ok" THEN 200 ELSE 500, <<>>)
    /\ pc' = "done"
    /\ UNCHANGED <<store, now, def, request, wins, report, icResp>>

\* the POST to dialog.open and the Response that follows it
DialogOpen(outcome) ==
    /\ pc = "dialog"
    /\ outcome \in CallResults
    /\ calls' = Append(calls, Call("dialog.open", outcome))
    /\ dialog' = DialogPayload(request)
    /\ resp' = IF def = 1
               THEN Response(200, <<>>)
               ELSE Response(200, <<"KanowinsCommand submitting - error: ",
                                    <<"dialog.open", outcome>> >>)
    /\ pc' = "done"
    /\ UNCHANGED <<store, now, def, request, wins, report, icResp>>

(***************************************************************************)
(* The environment: the clock, and the table's time-to-live.               *)
(***************************************************************************)
Tick(t) ==
    /\ t \in Instants
    /\ t > now
    /\ now' = t
    /\ UNCHANGED <<store, pc, def, request, calls, wins, report, dialog, resp, icResp>>

Expire(i) ==
    /\ i \in DOMAIN store
    /\ Expired(store[i], now)
    /\ store' = StoreRemove(store, i)
    /\ UNCHANGED <<now, pc, def, request, calls, wins, report, dialog, resp, icResp>>

Init ==
    /\ store = <<>>
    /\ now = Start
    /\ pc = "idle"
    /\ def = 1
    /\ request = NoRequest
    /\ calls = <<>>
    /\ wins = <<>>
    /\ report = NoReport
    /\ dialog = NoDialog
    /\ resp = NoResponse
    /\ icResp = NoResponse

Next ==
    \/ \E r \in Requests : Handler(r)
    \/ \E r \in Requests : Handler2(r)
    \/ \E r \in HelpRequests : HelpHandler(r)
    \/ \E outcome \in GetWinsOutcomes : GetWins(outcome)
    \/ \E outcome \in CallResults : getSummary(outcome)
    \/ \E outcome \in CallResults : DialogOpen(outcome)
    \/ \E payload \in Payloads \cup {NoPayload}, err \in PutItemErrors :
          InteractiveComponentHandler(payload, err)
    \/ \E t \in Instants : Tick(t)
    \/ \E i \in DOMAIN store : Expire(i)

Spec == Init /\ [][Next]_vars

(***************************************************************************)
(* Properties.                                                             *)
(***************************************************************************)
\* a KanowinsCommand invocation has returned its Response
CommandDone == pc = "done" /\ def \in {1, 2}

DialogCalls == Cardinality({i \in DOMAIN calls : calls[i].op = "dialog.open"})

SummaryErrorBody ==
    Len(resp.Body) = 2 /\ resp.Body[1] = "KanowinsCommand summary - error: "

\* getSummary was called in the invocation in flight or just finished
SummaryInvoked ==
    \/ pc \in {"GetWins", "getSummary"}
    \/ \E i \in DOMAIN calls : calls[i].op \in {"Scan", "response_url"}
    \/ SummaryErrorBody

\* getSummary was called and returned an error
SummaryFailure ==
    \/ \E i \in DOMAIN calls : /\ calls[i].op \in {"Scan", "response_url"}
                              /\ calls[i].result # "ok"
    \/ SummaryErrorBody

\* C1: an invocation whose token is not the shared secret makes no outbound
\* call and is answered with status 400, whatever its text.
C1_BadTokenRejected ==
    (def \in {1, 2} /\ ~TokenValid(request)) =>
        /\ calls = <<>>
        /\ pc = "done" => resp.StatusCode = 400

\* C2, as claimed: with a correct token and a text other than "summary" the
\* handler makes exactly one dialog.open call and answers 200.
C2_TextNotSummary ==
    (CommandDone /\ TokenValid(request) /\ request.Text # summary) =>
        (DialogCalls = 1 /\ resp.StatusCode = 200)

\* C2, amended: with a correct token and a text whose lower-case form is not
\* "summary" the handler makes exactly one dialog.open call and answers 200.
C2_LowerTextNotSummary ==
    (CommandDone /\ TokenValid(request) /\ ToLower(request.Text) # summary) =>
        (DialogCalls = 1 /\ resp.StatusCode = 200)

C2_Witness ==
    /\ pc = "done" /\ def = 1
    /\ TokenValid(request) /\ request.Text = Alice
    /\ DialogCalls = 1 /\ resp.StatusCode = 200

\* C3, as claimed: once the token check passed, exactly one dialog.open call
\* is made before the handler responds, also when getSummary fails.
C3_AlwaysOneDialog ==
    (CommandDone /\ TokenValid(request)) => DialogCalls = 1

\* C3, amended: once the token check passed, exactly one dialog.open call is
\* made before the handler responds, also after a getSummary that succeeded;
\* when getSummary fails none is made. No invocation makes more than one.
C3_OneDialogUnlessSummaryFailed ==
    /\ DialogCalls <= 1
    /\ (CommandDone /\ TokenValid(request)) =>
           DialogCalls = IF SummaryFailure THEN 0 ELSE 1

C3_Witness ==
    /\ pc = "done" /\ def = 1 /\ TokenValid(request)
    /\ report.posted /\ ~SummaryFailure
    /\ DialogCalls = 1 /\ calls[Len(calls)].op = "dialog.open"

\* C4, as claimed: once the token check passed the handler answers 200,
\* whatever getSummary and the dialog.open call come to.
C4_Always200 ==
    (CommandDone /\ TokenValid(request)) => resp.StatusCode = 200

\* C4, amended: once the token check passed the handler answers 200 whatever
\* the dialog.open call comes to, except that it answers 400 when getSummary
\* fails.
C4_200UnlessSummaryFailed ==
    (CommandDone /\ TokenValid(request)) =>
        resp.StatusCode = IF SummaryFailure THEN 400 ELSE 200

C4_Witness ==
    /\ pc = "done" /\ def = 1 /\ TokenValid(request)
    /\ report.posted /\ ~SummaryFailure
    /\ calls[Len(calls)] = Call("dialog.open", "error")
    /\ resp.StatusCode = 200

\* C5: when the scan, the decoding of the scanned records or the POST to
\* response_url fails, the handler answers 400 with the error text in the body
\* and stops: the failed call is its last call and no dialog is opened.
C5_SummaryFailureStops ==
    /\ \A i \in DOMAIN calls :
          ( \/ calls[i].op = "Scan" /\ calls[i].result \in {"error", "undecodable"}
            \/ calls[i].op = "response_url" /\ calls[i].result = "error" ) =>
              /\ pc = "done"
              /\ i = Len(calls)
              /\ resp.StatusCode = 400
              /\ resp.Body = <<"KanowinsCommand summary - error: ",
                               <<IF calls[i].op = "Scan" THEN "GetWins"
                                 ELSE "response_url", calls[i].result>> >>
              /\ dialog = NoDialog
    /\ SummaryErrorBody =>
          /\ pc = "done" /\ resp.StatusCode = 400
          /\ DialogCalls = 0 /\ dialog = NoDialog

C5_Witness ==
    /\ pc = "done" /\ TokenValid(request)
    /\ Len(calls) = 2
    /\ calls[1].op = "Scan" /\ calls[1].result = "ok"
    /\ calls[2] = Call("response_url", "error")
    /\ resp.StatusCode = 400 /\ SummaryErrorBody
    /\ dialog = NoDialog

\* C6: the first Handler calls getSummary exactly when the command argument,
\* trimmed and lower-cased, is "summary".
C6_TrimmedRouting ==
    (pc = "done" /\ def = 1 /\ TokenValid(request)) =>
        (SummaryInvoked <=> ToLower(TrimSpace(request.Text)) = summary)

\* rows are the summaries, in scan order, of exactly the wins of ws whose age
\* at t is more than 12 hours
RowsAreTheAged(ws, t, rows) ==
    LET aged == {i \in DOMAIN ws : t - ws[i].CreatedAt > 12 * 3600 * TicksPerSecond}
        rank(i) == Cardinality({j \in aged : j <= i})
    IN /\ Len(rows) = Cardinality(aged)
       /\ \A i \in aged :
             /\ rows[rank(i)].who = ws[i].Who
             /\ rows[rank(i)].title = ws[i].Title
             /\ rows[rank(i)].description = ws[i].Description
             /\ rows[rank(i)].created_at = ws[i].CreatedAt \div TicksPerSecond

\* C7: the report getSummary posts holds exactly the scanned Wins whose age is
\* strictly more than 12 hours, however old they are.
C7_SummaryFilter ==
    [][(pc = "getSummary" /\ report'.posted) =>
           RowsAreTheAged(wins, now, report'.rows)]_vars

\* Two Wins were scanned, 13h and exactly 12h old when filtered: the report
\* holds the first alone.
C7_Witness ==
    /\ now = Start + 13 * Hour
    /\ Len(store) = 2
    /\ store[1].created_at.S = Start
    /\ store[2].created_at.S = Start + Hour
    /\ Len(calls) >= 2
    /\ calls[1].op = "Scan" /\ calls[1].result = "ok" /\ calls[1].count = 2
    /\ report.posted /\ report.count = 1
    /\ report.rows[1].created_at = Unix(Start)

\* C8, as claimed: the expiry instant of every Win in the table is its
\* updated_at plus exactly 604800 seconds.
C8_ExpiryExact ==
    \A i \in DOMAIN store :
        store[i].ttl.N * TicksPerSecond = store[i].updated_at.S + 604800 * TicksPerSecond

\* C8, amended: the expiry of every Win in the table, a whole number of Unix
\* seconds, is its updated_at cut to the whole second plus exactly 604800.
C8_ExpiryWholeSeconds ==
    \A i \in DOMAIN store :
        store[i].ttl.N = (store[i].updated_at.S \div TicksPerSecond) + 604800

C8_Witness ==
    \E i \in DOMAIN store : store[i].updated_at.S % TicksPerSecond # 0

C10_PersistedFields ==
    [][\A payload \in Payloads :
          (payload.json /\ InteractiveComponentHandler(payload, "nil")) =>
              LET win == UnmarshalMap(store'[Len(store')])
              IN /\ win.Description = IF payload.submission.description = ""
                                      THEN "Big WIN!"
                                      ELSE payload.submission.description
                 /\ win.Who = payload.submission.who
                 /\ win.Title = payload.submission.title
                 /\ win.UserID = payload.user.id
                 /\ win.UserName = payload.user.name]_vars

C10_Witness ==
    /\ Len(store) = 2
    /\ store[1].who = [S |-> "Bob"] /\ store[1].title = [S |-> "Shipped feature"]
    /\ store[1].description = [S |-> "Big WIN!"]
    /\ store[2].description = [S |-> "Did it"]
    /\ store[2].user_id = [S |-> "U1"] /\ store[2].user_name = [S |-> "alice"]

\* C11: every invocation ends by returning a Response; no input, a body
\* without one of the form fields included, makes it end without one.
C11_AlwaysResponds ==
    /\ pc # "panic"
    /\ pc = "done" => resp # NoResponse

\* C12: a Dialog Capture that decoded a payload field answers 200 with an
\* empty body, whether the JSON decodes or not and whether GetDB and PutItem
\* succeed or fail; when the write fails the table stays as it was. Every
\* step either has that outcome or is no such Dialog Capture.
C12_CaptureAlways200 ==
    [][\A payload \in Payloads, err \in PutItemErrors :
          \/ /\ icResp' = [StatusCode |-> 200, Body |-> <<>>]
             /\ err # "nil" => store' = store
          \/ ~InteractiveComponentHandler(payload, err)]_vars

\* A Dialog Capture has answered 200, and the table holds no Win although
\* none can have expired yet: a Dialog Capture whose write failed.
C12_Witness ==
    /\ icResp = [StatusCode |-> 200, Body |-> <<>>]
    /\ store = <<>>
    /\ now < 8 * Day

\* C13: when the dialog.open call of an invocation with the right token
\* fails, by a transport error or an undecodable reply, the handler still
\* answers 200.
C13_DialogFailureStill200 ==
    \A i \in DOMAIN calls :
        (calls[i].op = "dialog.open" /\ calls[i].result # "ok"
         /\ TokenValid(request)) =>
            (CommandDone /\ i = Len(calls) /\ resp.StatusCode = 200)

C13_Witness ==
    /\ pc = "done" /\ def = 1 /\ TokenValid(request)
    /\ calls = <<Call("dialog.open", "undecodable")>>
    /\ resp.StatusCode = 200

\* C14: in every report delivered the number of the "WINS count" line is the
\* number of rows of the list, and a POST to response_url that was sent
\* carried a report also when no scanned Win was older than 12 hours.
C14_CountIsRows ==
    /\ report.posted => report.count = Len(report.rows)
    /\ \A i \in DOMAIN calls :
          (calls[i].op = "response_url" /\ calls[i].result # "error") =>
              report.posted

\* One Win was scanned, none was older than 12 hours: the report posted
\* says count 0 and has no rows.
C14_Witness ==
    /\ Len(calls) >= 2
    /\ calls[1].op = "Scan" /\ calls[1].result = "ok" /\ calls[1].count >= 1
    /\ calls[2] = Call("response_url", "ok")
    /\ report.posted /\ report.count = 0 /\ report.rows = <<>>

\* C15: the dialog sent to dialog.open carries the trigger_id of the request
\* and exactly the elements who, title and description in that order; who is
\* pre-filled with the command text as it came, title and description are
\* empty, and description alone is optional.
C15_DialogContents ==
    /\ DialogCalls >= 1 => dialog.posted
    /\ dialog.posted =>
          /\ dialog.trigger_id = request.TriggerID
          /\ Len(dialog.elements) = 3
          /\ dialog.elements[1].name = "who"
          /\ dialog.elements[1].value = request.Text
          /\ ~dialog.elements[1].optional
          /\ dialog.elements[2].name = "title"
          /\ dialog.elements[2].value = <<>>
          /\ ~dialog.elements[2].optional
          /\ dialog.elements[3].name = "description"
          /\ dialog.elements[3].value = <<>>
          /\ dialog.elements[3].optional

C15_Witness ==
    /\ pc = "done" /\ def = 1 /\ TokenValid(request)
    /\ request.Text = PaddedSummary
    /\ dialog.posted /\ dialog.elements[1].value = PaddedSummary
    /\ dialog.elements[1].value # ToLower(TrimSpace(request.Text))

\* C16: once the POST to response_url succeeded, a reply to it that is not
\* JSON neither makes getSummary return an error nor turns the Response of
\* the handler into a 400.
C16_AckDecodedForLoggingOnly ==
    \A i \in DOMAIN calls :
        calls[i] = Call("response_url", "undecodable") =>
            /\ ~SummaryErrorBody
            /\ resp.StatusCode # 400

\* C17: every Win in the table has a who and a title that are not empty.
C17_WhoAndTitleNonEmpty ==
    \A i \in DOMAIN store :
        /\ UnmarshalMap(store[i]).Who # ""
        /\ UnmarshalMap(store[i]).Title # ""

\* created_at and updated_at of every Win in the table
TimestampsSet ==
    \A i \in DOMAIN store :
        /\ store[i].created_at.S = store[i].updated_at.S
        /\ store[i].created_at.S <= now

\* the Wins of the table after a step, against those before it
WinsUnchanged ==
    \A i \in DOMAIN store' :
        \/ \E j \in DOMAIN store : store'[i] = store[j]
        \/ /\ i = Len(store')
           /\ store'[i].created_at.S = now
           /\ store'[i].updated_at.S = now

\* C18: every Win in the table has created_at equal to updated_at and not
\* later than the current time, and no step changes a Win that is in the
\* table: a Win of the table after a step was in it before, as it is, or is
\* the one Win the step wrote, stamped with the time of the step.
C18_TimestampsFixed == []TimestampsSet /\ [][WinsUnchanged]_vars

\* A Win written at the start is still there, as written, 13 hours later.
C18_Witness ==
    /\ Len(store) >= 1
    /\ now = Start + 13 * Hour
    /\ store[1].created_at.S = Start /\ store[1].updated_at.S = Start

ScanCalls == Cardinality({i \in DOMAIN calls : calls[i].op = "Scan"})

\* C19: getSummary scans the table once in an invocation and reads nothing
\* back: what it filters are the Wins of that scan, its report holds exactly
\* those of them older than 12 hours whatever the table has become since,
\* and it fails only by its own calls, never because the table changed.
C19_SingleScanSnapshot ==
    /\ [](/\ ScanCalls <= 1
          /\ pc = "getSummary" =>
                /\ ScanCalls = 1
                /\ Len(wins) = calls[1].count)
    /\ [][pc = "getSummary" /\ pc' # "getSummary" =>
             /\ ScanCalls' = 1
             /\ store' = store
             /\ report'.posted => RowsAreTheAged(wins, now, report'.rows)
             /\ pc' = "done" =>
                   \/ ~ParsesAsURL(request.ResponseURL)
                   \/ calls'[Len(calls')].op = "response_url"
                      /\ calls'[Len(calls')].result # "ok"]_vars

\* The one Win scanned is in the report, and is no longer in the table.
C19_Witness ==
    /\ pc = "dialog"
    /\ calls = << [op |-> "Scan", result |-> "ok", count |-> 1],
                  Call("response_url", "ok") >>
    /\ report.posted /\ report.count = 1
    /\ store = <<>>

\* a step of one of the slash command handlers, KanowinsCommand or KanowinsHelp
CommandOrHelpStep ==
    pc' # pc \/ def' # def \/ request' # request \/ calls' # calls
        \/ wins' # wins \/ report' # report \/ dialog' # dialog \/ resp' # resp

\* C20: no step of KanowinsCommand, getSummary included, or of KanowinsHelp
\* changes the table; a step that changes it either adds one Win at the end,
\* the write of one Dialog Capture, or removes one Win whose ttl has passed.
C20_StoreFrame ==
    [][/\ CommandOrHelpStep => store' = store
       /\ store' # store =>
             \/ /\ Len(store') = Len(store) + 1
                /\ SubSeq(store', 1, Len(store)) = store
                /\ icResp' = [StatusCode |-> 200, Body |-> <<>>]
             \/ \E i \in DOMAIN store :
                   /\ store[i].ttl.N < now \div TicksPerSecond
                   /\ store' = [j \in 1..(Len(store) - 1) |->
                                   IF j < i THEN store[j] ELSE store[j + 1]]]_vars

\* A summary has scanned and reported the one Win of the table and opened
\* its dialog, and the Win is in the table as it was written.
C20_Witness ==
    /\ pc = "done" /\ def = 1
    /\ Len(calls) = 3
    /\ calls[1] = [op |-> "Scan", result |-> "ok", count |-> 1]
    /\ report.posted /\ report.count = 1
    /\ report.rows[1].created_at = Unix(Start)
    /\ Len(store) = 1
    /\ store[1].created_at.S = Start /\ store[1].who = [S |-> "Bob"]

====
